---- MODULE Spec2Model ----
(***************************************************************************)
(* MCPClient (src/src/modules/mcp_client/client.py): the orchestration     *)
(* loop that drives an LLM provider and an MCP tool session, the           *)
(* interactive chat loop around it and the connect / cleanup lifecycle of  *)
(* main().                                                                 *)
(*                                                                         *)
(* Python values are dynamically typed; TLC compares only values of one    *)
(* shape, so every dict / object is a record with a fixed field set and    *)
(* the fields a given value does not have hold an empty default.           *)
(* A Python str is a sequence of string atoms (Str), so that "\n\n".join   *)
(* and f-strings are real concatenations.                                  *)
(***************************************************************************)
EXTENDS Integers, Sequences, FiniteSets, TLC

(* ------------------------------ bounds -------------------------------- *)
\* content blocks in one anthropic completion
MaxBlocks == 2
\* tool calls in one openai completion
MaxCalls == 2
\* openai completions of one query that may still carry tool calls
MaxRounds == 2
\* queries read by one run of chat_loop
MaxQueries == 2
\* descriptors in a tool catalog handed to the formatter
MaxTools == 2
\* connect_to_server calls made on one client by a caller other than main
MaxConnects == 2

(* ------------------------------ values -------------------------------- *)
Providers == {"anthropic", "openai"}
\* what sys.argv[1] may hold
ArgvProviders == {"anthropic", "openai", "unsupported"}
\* lines typed at the prompt
InputLines == {"quit", " Quit ", " What is 2+2? ", ""}
ToolNames == <<"add", "echo">>
\* arguments as a model emits them: JSON text (openai) / the parsed dict (anthropic)
JsonDocs == <<"{\"a\": 2}", "{}">>
BadJson == "{\"a\": "
ConfigKeys == {"dummy"}
ServerKeys == {"dummy", "ghost"}

Digit == <<"0", "1", "2", "3", "4", "5", "6", "7", "8", "9">>
Num(n) == Digit[n + 1]

\* the text of block j of the k-th completion of a query: an opaque fragment
Fragment(k, j) == <<"text", Num(k), Num(j)>>
\* a provider-issued correlation id, unique within the query
ReqId(k, j) == 10 * k + j
NameAt(k, j) == ToolNames[((k + j) % 2) + 1]
DocAt(k, j) == JsonDocs[(j % 2) + 1]

(* json.loads: the dict is named by its repr *)
Parsable(s) == s \in {JsonDocs[1], JsonDocs[2]}
JsonLoads(s) == IF s = JsonDocs[1] THEN "{'a': 2}" ELSE "{}"

(* content blocks of an anthropic message *)
NoBlock == [type |-> "", text |-> <<>>, id |-> 0, name |-> "", input |-> "",
            tool_use_id |-> 0, content |-> <<>>]
TextBlock(t) == [NoBlock EXCEPT !.type = "text", !.text = t]
ToolUseBlock(i, n, a) ==
    [NoBlock EXCEPT !.type = "tool_use", !.id = i, !.name = n, !.input = a]
ToolResultBlock(i, c) ==
    [NoBlock EXCEPT !.type = "tool_result", !.tool_use_id = i, !.content = c]

(* content items of a CallToolResult, and their model_dump() *)
TextContent(t) == [cls |-> "TextContent", type |-> "text", text |-> t]
ModelDump(c) == [cls |-> "dict", type |-> c.type, text |-> c.text]
\* what the n-th tool invocation of a query returns
PayloadAt(n) == <<TextContent(<<"result", Num(n)>>)>>

(* one tool call of an openai message *)
ToolCall(i, n, a) == [id |-> i, name |-> n, arguments |-> a]

(* a message of the transcript.  ctype tells what `content` is: "str"      *)
(* (text), "list" (blocks), "ref" (the shared assistant_message_content    *)
(* list object), "dump" (items), "none".                                   *)
NoMessage == [role |-> "", ctype |-> "none", text |-> <<>>, blocks |-> <<>>,
              items |-> <<>>, tool_calls |-> <<>>, tool_call_id |-> 0,
              name |-> ""]
UserMessage(q) == [NoMessage EXCEPT !.role = "user", !.ctype = "str", !.text = q]

(* a completion: response.content (anthropic) or                          *)
(* response.choices[0].message (openai)                                    *)
NoResponse == [content |-> <<>>, text |-> <<>>, tool_calls |-> <<>>]

(* ------------------------------ helpers ------------------------------- *)
RECURSIVE Join(_)
\* "\n\n".join(parts)
Join(parts) ==
    IF parts = <<>> THEN <<>>
    ELSE IF Len(parts) = 1 THEN parts[1]
    ELSE parts[1] \o <<"\n\n">> \o Join(Tail(parts))

\* f"[Calling tool {tool_name} with args {tool_args}]"
CallingTool(n, a) == <<"[Calling tool ", n, " with args ", a, "]">>

SelectIdx(s, P(_)) == {i \in 1..Len(s) : P(s[i])}
IsPrefix(s, t) == Len(s) <= Len(t) /\ SubSeq(t, 1, Len(s)) = s

\* as Lower, the case kept
LowerKeepsCase(l) == l

(* str.strip() and str.lower() on the lines of InputLines *)
Strip(l) ==
    CASE l = " Quit " -> "Quit"
      [] l = " What is 2+2? " -> "What is 2+2?"
      [] OTHER -> l
Lower(l) ==
    CASE l = "Quit" -> "quit"
      [] l = "What is 2+2?" -> "what is 2+2?"
      [] OTHER -> l

(* ------------------------- the MCP tool server ------------------------ *)
\* the descriptors session.list_tools() reports
Catalog ==
    << [name |-> "add", description |-> "adds", inputSchema |-> "schema-add"],
       [name |-> "echo", description |-> "echoes", inputSchema |-> "schema-echo"] >>

\* what the server reports once it has changed its catalog
ChangedCatalog ==
    << [name |-> "echo", description |-> "echoes", inputSchema |-> "schema-echo"],
       [name |-> "mul", description |-> "multiplies", inputSchema |-> "schema-mul"],
       [name |-> "add", description |-> "adds", inputSchema |-> "schema-add-v2"] >>

\* the descriptor lists the formatter is applied to
Descriptors ==
    [name : {"add", "echo"}, description : {"adds", ""},
     inputSchema : {"schema-add", "schema-echo"}]
CatalogLists == UNION {[1..n -> Descriptors] : n \in 0..MaxTools}

NoFunction == [name |-> "", description |-> "", parameters |-> ""]
NoToolSpec == [type |-> "", name |-> "", description |-> "", input_schema |-> "",
               function |-> NoFunction]

\* as GetAvailableTools, the openai parameters taken from the description
GetAvailableToolsSchemaLost(p, tools) ==
    IF p = "anthropic"
    THEN [i \in 1..Len(tools) |->
            [NoToolSpec EXCEPT !.name = tools[i].name,
                               !.description = tools[i].description,
                               !.input_schema = tools[i].inputSchema]]
    ELSE [i \in 1..Len(tools) |->
            [NoToolSpec EXCEPT !.type = "function",
                               !.function = [name |-> tools[i].name,
                                             description |-> tools[i].description,
                                             parameters |-> tools[i].description]]]

\* as GetAvailableTools, the openai list built last descriptor first
GetAvailableToolsReversed(p, tools) ==
    IF p = "anthropic"
    THEN [i \in 1..Len(tools) |->
            [NoToolSpec EXCEPT !.name = tools[i].name,
                               !.description = tools[i].description,
                               !.input_schema = tools[i].inputSchema]]
    ELSE [i \in 1..Len(tools) |->
            [NoToolSpec EXCEPT
                !.type = "function",
                !.function = [name |-> tools[Len(tools) + 1 - i].name,
                              description |-> tools[Len(tools) + 1 - i].description,
                              parameters |-> tools[Len(tools) + 1 - i].inputSchema]]]

\* _get_available_tools, one list comprehension per provider
GetAvailableTools(p, tools) ==
    IF p = "anthropic"
    THEN [i \in 1..Len(tools) |->
            [NoToolSpec EXCEPT !.name = tools[i].name,
                               !.description = tools[i].description,
                               !.input_schema = tools[i].inputSchema]]
    ELSE [i \in 1..Len(tools) |->
            [NoToolSpec EXCEPT !.type = "function",
                               !.function = [name |-> tools[i].name,
                                             description |-> tools[i].description,
                                             parameters |-> tools[i].inputSchema]]]

(* --------------------------- the LLM provider ------------------------- *)
BlockShapes == UNION {[1..n -> {"text", "tool_use"}] : n \in 0..MaxBlocks}

\* the k-th completion of a query under the anthropic profile, blocks as in shape s
ClaudeCompletion(k, s) ==
    [NoResponse EXCEPT !.content =
        [j \in 1..Len(s) |->
            IF s[j] = "text" THEN TextBlock(Fragment(k, j))
            ELSE ToolUseBlock(ReqId(k, j), NameAt(k, j), JsonLoads(DocAt(k, j)))]]

\* the k-th completion under the openai profile: content or None, n tool calls,
\* the arguments of call `bad` (if any) not being valid JSON
OpenaiCompletion(k, hasText, n, bad) ==
    [NoResponse EXCEPT
        !.text = IF hasText THEN Fragment(k, 0) ELSE <<>>,
        !.tool_calls =
            [j \in 1..n |->
                ToolCall(ReqId(k, j), NameAt(k, j),
                         IF j = bad THEN BadJson ELSE DocAt(k, j))]]

\* what the provider may answer to the k-th call of a query
Completions(p, k) ==
    IF p = "anthropic"
    THEN {ClaudeCompletion(k, s) : s \in BlockShapes}
    ELSE {OpenaiCompletion(k, t, n, b) :
            t \in BOOLEAN, n \in 0..(IF k > MaxRounds THEN 0 ELSE MaxCalls),
            b \in 0..MaxCalls}

(* ------------------------------- state -------------------------------- *)
VARIABLES
    provider,        \* self.provider
    session,         \* self.session: "None" or "ClientSession"
    exit_stack,      \* self.exit_stack: the contexts entered, oldest first
    released,        \* the contexts exited so far, in order
    pc,              \* position in main / chat_loop / process_query
    inflight,        \* the external call awaited: "none", "list_tools", "api", "call_tool"
    nread,           \* queries read by chat_loop so far
    out,             \* what chat_loop printed last: "none", "answer", "error"
    query,           \* process_query: query
    messages,        \* process_query: messages
    available_tools, \* process_query: available_tools
    response,        \* _get_final_text_*: response
    iter,            \* the list the running for loop iterates
    idx,             \* position of the for loop in iter
    final_text,      \* _get_final_text_*: final_text
    amc,             \* _get_final_text_claude: assistant_message_content
    calls,           \* transcripts (and tools) passed to the provider, this query
    received,        \* completions received, this query
    invoked,         \* tool invocations sent to the session, this query
    returned,        \* payloads the invocations returned, this query
    answer,          \* what process_query returned
    catalog,         \* the descriptors the tool server reports at present
    connects         \* the connect_to_server calls made: <<server_key, outcome>>

client == <<provider, session, exit_stack, released>>
frame == <<query, messages, available_tools, response, iter, idx, final_text, amc>>
ghost == <<calls, received, invoked, returned, answer>>
world == <<catalog, connects>>
vars == <<provider, session, exit_stack, released, pc, inflight, nread, out,
          query, messages, available_tools, response, iter, idx, final_text, amc,
          calls, received, invoked, returned, answer, catalog, connects>>

NoAnswer == <<"<no answer>">>

\* no process_query frame exists
NoFrame ==
    /\ query = "" /\ messages = <<>> /\ available_tools = <<>>
    /\ response = NoResponse /\ iter = <<>> /\ idx = 0
    /\ final_text = <<>> /\ amc = <<>>
    /\ calls = <<>> /\ received = <<>> /\ invoked = <<>> /\ returned = <<>>
    /\ answer = NoAnswer

\* no client exists yet
NoClient ==
    /\ session = "None"
    /\ exit_stack = <<>>
    /\ released = <<>>
    /\ inflight = "none"
    /\ nread = 0
    /\ out = "none"
    /\ connects = <<>>
    /\ NoFrame

\* main is entered: client = MCPClient(sys.argv[1]) comes first
Init ==
    /\ provider = "None"
    /\ pc = "start"
    /\ catalog = Catalog
    /\ NoClient

\* the provider is one __init__ accepts
Supported(p) == p = "anthropic" \/ p = "openai"

\* as Construct, the provider not checked
ConstructUnchecked(p) ==
    /\ pc = "start"
    /\ provider' = p
    /\ pc' = "connect"
    /\ UNCHANGED <<session, exit_stack, released, inflight, nread, out>>
    /\ UNCHANGED <<frame, ghost, world>>

\* MCPClient.__init__(provider): self.provider is assigned, then an unknown
\* provider raises ValueError; main has not entered its try yet
Construct(p) ==
    /\ pc = "start"
    /\ provider' = p
    /\ pc' = IF Supported(p) THEN "connect" ELSE "crashed"
    /\ UNCHANGED <<session, exit_stack, released, inflight, nread, out>>
    /\ UNCHANGED <<frame, ghost, world>>

(* ----------------------- connect / cleanup / main --------------------- *)
\* the stages of connect_to_server at which an exception may be raised
ConnectStages == {"stdio_client", "ClientSession", "initialize", "list_tools", "none"}

\* as ConnectStack, the subprocess launched before the key is looked up
ConnectStackLaunchFirst(stack, key, fail) ==
    IF fail = "stdio_client" THEN stack
    ELSE IF key \notin ConfigKeys \/ fail = "ClientSession"
         THEN Append(stack, "stdio_client")
    ELSE stack \o <<"stdio_client", "ClientSession">>

\* self.exit_stack after connect_to_server(key) that fails at stage `fail`
ConnectStack(stack, key, fail) ==
    IF key \notin ConfigKeys \/ fail = "stdio_client" THEN stack
    ELSE IF fail = "ClientSession" THEN Append(stack, "stdio_client")
    ELSE stack \o <<"stdio_client", "ClientSession">>

\* self.session after connect_to_server(key) that fails at stage `fail`
ConnectSession(old, key, fail) ==
    IF key \notin ConfigKeys \/ fail \in {"stdio_client", "ClientSession"} THEN old
    ELSE "ClientSession"

ConnectRaises(key, fail) == key \notin ConfigKeys \/ fail # "none"

\* how connect_to_server(key) ended: "none" (returned) or what raised
ConnectOutcome(key, fail) == IF key \notin ConfigKeys THEN "KeyError" ELSE fail

\* as Connect, without the try/finally of main: a failed connect ends the run
ConnectNoFinally(key, fail) ==
    /\ pc = "connect"
    /\ exit_stack' = ConnectStack(exit_stack, key, fail)
    /\ session' = ConnectSession(session, key, fail)
    /\ connects' = Append(connects, <<key, ConnectOutcome(key, fail)>>)
    /\ pc' = IF ConnectRaises(key, fail) THEN "done" ELSE "prompt"
    /\ UNCHANGED <<provider, released, inflight, nread, out, catalog>>
    /\ UNCHANGED <<frame, ghost>>

\* main: await client.connect_to_server(sys.argv[2]); on an exception the
\* finally clause runs cleanup
Connect(key, fail) ==
    /\ pc = "connect"
    /\ exit_stack' = ConnectStack(exit_stack, key, fail)
    /\ session' = ConnectSession(session, key, fail)
    /\ connects' = Append(connects, <<key, ConnectOutcome(key, fail)>>)
    /\ pc' = IF ConnectRaises(key, fail) THEN "cleanup" ELSE "prompt"
    /\ UNCHANGED <<provider, released, inflight, nread, out, catalog>>
    /\ UNCHANGED <<frame, ghost>>

RECURSIVE Reverse(_)
Reverse(s) == IF s = <<>> THEN <<>> ELSE Append(Reverse(Tail(s)), Head(s))

\* as Aclose, the session closed whether or not it was ever entered
AcloseUnconditional(rel, stack) == Append(rel \o Reverse(stack), "ClientSession")

\* what has been released once exit_stack.aclose() ran: the contexts entered
\* are exited last in, first out
Aclose(rel, stack) == rel \o Reverse(stack)

\* cleanup: await self.exit_stack.aclose(), in main's finally clause
Cleanup ==
    /\ pc = "cleanup"
    /\ released' = Aclose(released, exit_stack)
    /\ exit_stack' = <<>>
    /\ pc' = "done"
    /\ UNCHANGED <<provider, session, inflight, nread, out>>
    /\ UNCHANGED <<frame, ghost, world>>

(* ------------------------------ chat_loop ----------------------------- *)
\* the frame of process_query is gone once it returned or raised
DropFrame ==
    /\ query' = "" /\ messages' = <<>> /\ available_tools' = <<>>
    /\ response' = NoResponse /\ iter' = <<>> /\ idx' = 0
    /\ final_text' = <<>> /\ amc' = <<>>
    /\ calls' = <<>> /\ received' = <<>> /\ invoked' = <<>> /\ returned' = <<>>
    /\ answer' = NoAnswer

\* an exception leaves process_query for the except clause of chat_loop
Raise ==
    /\ pc' = "except"
    /\ inflight' = "none"

\* as InitialMessages, behind a system message
InitialMessagesWithSystem(q) ==
    <<[NoMessage EXCEPT !.role = "system", !.ctype = "str", !.text = <<"system">>],
      UserMessage(<<q>>)>>

\* the transcript process_query starts from
InitialMessages(q) == <<UserMessage(<<q>>)>>

\* query = input("\nQuery: ").strip(); "quit" breaks the loop
ReadQuit(line) ==
    /\ pc = "prompt"
    /\ query' = Strip(line)
    /\ Lower(query') = "quit"
    /\ pc' = "cleanup"
    /\ UNCHANGED <<inflight, nread, out, messages, available_tools, response,
                   iter, idx, final_text, amc>>
    /\ UNCHANGED <<client, ghost>>
    /\ UNCHANGED world

\* any other line: response = await self.process_query(query), up to its first await
ReadQuery(line) ==
    /\ pc = "prompt"
    /\ nread < MaxQueries
    /\ Lower(Strip(line)) # "quit"
    /\ nread' = nread + 1
    /\ query' = Strip(line)
    /\ messages' = InitialMessages(Strip(line))
    /\ inflight' = "list_tools"
    /\ pc' = "list_tools_wait"
    /\ UNCHANGED <<out, available_tools, response, iter, idx, final_text, amc>>
    /\ UNCHANGED <<client, ghost>>
    /\ UNCHANGED world

\* as ReadFails, the exception not caught: the loop is left
ReadFailsEndsLoop ==
    /\ pc = "prompt"
    /\ out' = "error"
    /\ pc' = "cleanup"
    /\ UNCHANGED <<inflight, nread>>
    /\ UNCHANGED <<client, frame, ghost>>
    /\ UNCHANGED world

\* input() itself raises (end of input): caught, the loop prompts again
ReadFails ==
    /\ pc = "prompt"
    /\ out' = "error"
    /\ UNCHANGED <<pc, inflight, nread>>
    /\ UNCHANGED <<client, frame, ghost>>
    /\ UNCHANGED world

\* print("\n" + response)
PrintAnswer ==
    /\ pc = "print"
    /\ out' = "answer"
    /\ pc' = "prompt"
    /\ DropFrame
    /\ UNCHANGED <<inflight, nread>>
    /\ UNCHANGED client
    /\ UNCHANGED world

\* as PrintError, the except clause around the while loop: the loop ends
PrintErrorBreaks ==
    /\ pc = "except"
    /\ out' = "error"
    /\ pc' = "cleanup"
    /\ DropFrame
    /\ UNCHANGED <<inflight, nread>>
    /\ UNCHANGED client
    /\ UNCHANGED world

\* except Exception as e: print(f"\nError: {str(e)}")
PrintError ==
    /\ pc = "except"
    /\ out' = "error"
    /\ pc' = "prompt"
    /\ DropFrame
    /\ UNCHANGED <<inflight, nread>>
    /\ UNCHANGED client
    /\ UNCHANGED world

\* a KeyboardInterrupt or CancelledError, raised by input() or at an awaited
\* call, is no Exception: it leaves chat_loop and main's finally clause runs
ChatLoopInterrupted ==
    /\ pc = "prompt" \/ inflight # "none"
    /\ pc' = "cleanup"
    /\ inflight' = "none"
    /\ DropFrame
    /\ UNCHANGED <<nread, out>>
    /\ UNCHANGED client
    /\ UNCHANGED world

(* ---------------------------- process_query --------------------------- *)
\* as ListToolsReturn, the tools taken from the list fetched when connecting
ListToolsReturnCached ==
    /\ pc = "list_tools_wait"
    /\ inflight' = "none"
    /\ available_tools' = GetAvailableTools(provider, Catalog)
    /\ pc' = "api_first"
    /\ UNCHANGED <<nread, out, query, messages, response, iter, idx, final_text, amc>>
    /\ UNCHANGED <<client, ghost>>
    /\ UNCHANGED world

\* response = await self.session.list_tools() returns;
\* available_tools = await self._get_available_tools(response), which raises
\* ValueError for an unknown provider
ListToolsReturn ==
    /\ pc = "list_tools_wait"
    /\ inflight' = "none"
    /\ IF Supported(provider)
       THEN /\ available_tools' = GetAvailableTools(provider, catalog)
            /\ pc' = "api_first"
       ELSE /\ pc' = "except"
            /\ UNCHANGED available_tools
    /\ UNCHANGED <<nread, out, query, messages, response, iter, idx, final_text, amc>>
    /\ UNCHANGED <<client, ghost>>
    /\ UNCHANGED world

ListToolsRaise ==
    /\ pc = "list_tools_wait"
    /\ Raise
    /\ UNCHANGED <<nread, out>>
    /\ UNCHANGED <<client, frame, ghost>>
    /\ UNCHANGED world

\* the transcript as the provider call serialises it: an assistant message of
\* the anthropic loop holds the list object assistant_message_content itself
Materialize(msgs, shared) ==
    [i \in 1..Len(msgs) |->
        IF msgs[i].ctype = "ref"
        THEN [msgs[i] EXCEPT !.ctype = "list", !.blocks = shared]
        ELSE msgs[i]]

\* what _api_call sends
Request(msgs, shared, tools) ==
    [messages |-> Materialize(msgs, shared), tools |-> tools]

\* _api_call(messages, available_tools): the request leaves
ApiCall ==
    /\ pc \in {"api_first", "api_next"}
    /\ calls' = Append(calls, Request(messages, amc, available_tools))
    /\ inflight' = "api"
    /\ pc' = IF pc = "api_first" THEN "api_first_wait" ELSE "api_next_wait"
    /\ UNCHANGED <<nread, out, received, invoked, returned, answer>>
    /\ UNCHANGED <<client, frame>>
    /\ UNCHANGED world

\* the provider call raises (ProviderError)
ApiRaise ==
    /\ pc \in {"api_first_wait", "api_next_wait"}
    /\ Raise
    /\ UNCHANGED <<nread, out>>
    /\ UNCHANGED <<client, frame, ghost>>
    /\ UNCHANGED world

\* the initial completion arrives; _get_final_text dispatches on the provider
ApiReturnFirst(c) ==
    /\ pc = "api_first_wait"
    /\ response' = c
    /\ received' = Append(received, c)
    /\ inflight' = "none"
    /\ final_text' = <<>>
    /\ amc' = <<>>
    /\ iter' = IF provider = "anthropic" THEN c.content ELSE <<>>
    /\ idx' = IF provider = "anthropic" THEN 1 ELSE 0
    /\ pc' = IF provider = "anthropic" THEN "claude_loop" ELSE "openai_loop"
    /\ UNCHANGED <<nread, out, query, messages, available_tools>>
    /\ UNCHANGED <<client, calls, invoked, returned, answer>>
    /\ UNCHANGED world

\* await self.session.call_tool(tool_name, tool_args): the request leaves.
\* req and after are bookkeeping: the request served, the provider calls made so far
Invocation(n, a, i) == [name |-> n, args |-> a, req |-> i, after |-> Len(calls)]

\* as ToolRaise, the failure swallowed and the loop going on to the next
\* provider call
ToolRaiseSwallowed ==
    /\ pc \in {"claude_tool_wait", "openai_tool_wait"}
    /\ inflight' = "none"
    /\ pc' = "api_next"
    /\ UNCHANGED <<nread, out>>
    /\ UNCHANGED <<client, frame, ghost>>
    /\ UNCHANGED world

\* session.call_tool raises (ToolExecutionError)
ToolRaise ==
    /\ pc \in {"claude_tool_wait", "openai_tool_wait"}
    /\ Raise
    /\ UNCHANGED <<nread, out>>
    /\ UNCHANGED <<client, frame, ghost>>
    /\ UNCHANGED world

(* ----------------------- _get_final_text_claude ----------------------- *)
\* for content in response.content: content.type == "text"
ClaudeText ==
    /\ pc = "claude_loop"
    /\ idx <= Len(iter)
    /\ iter[idx].type = "text"
    /\ final_text' = Append(final_text, iter[idx].text)
    /\ amc' = Append(amc, iter[idx])
    /\ idx' = idx + 1
    /\ UNCHANGED <<pc, inflight, nread, out, query, messages, available_tools,
                   response, iter>>
    /\ UNCHANGED <<client, ghost>>
    /\ UNCHANGED world

\* content.type == "tool_use": result = await self.session.call_tool(...)
ClaudeToolCall ==
    /\ pc = "claude_loop"
    /\ idx <= Len(iter)
    /\ iter[idx].type = "tool_use"
    /\ invoked' = Append(invoked,
                         Invocation(iter[idx].name, iter[idx].input, iter[idx].id))
    /\ inflight' = "call_tool"
    /\ pc' = "claude_tool_wait"
    /\ UNCHANGED <<nread, out, calls, received, returned, answer>>
    /\ UNCHANGED <<client, frame>>
    /\ UNCHANGED world

\* as ClaudeToolMessages, the tool_result message forgotten
ClaudeToolMessagesNoResult(msgs, block, payload) ==
    Append(msgs, [NoMessage EXCEPT !.role = "assistant", !.ctype = "ref"])

\* the two messages appended after a tool_use block was executed
ClaudeToolMessages(msgs, block, payload) ==
    msgs \o << [NoMessage EXCEPT !.role = "assistant", !.ctype = "ref"],
               [NoMessage EXCEPT !.role = "user", !.ctype = "list",
                   !.blocks = <<ToolResultBlock(block.id, payload)>>] >>

\* call_tool returned: record the invocation, append the assistant message and
\* the tool_result message; _api_call comes next
ClaudeToolReturn(payload) ==
    /\ pc = "claude_tool_wait"
    /\ returned' = Append(returned, payload)
    /\ final_text' = Append(final_text, CallingTool(iter[idx].name, iter[idx].input))
    /\ amc' = Append(amc, iter[idx])
    /\ messages' = ClaudeToolMessages(messages, iter[idx], payload)
    /\ inflight' = "none"
    /\ pc' = "api_next"
    /\ UNCHANGED <<nread, out, query, available_tools, response, iter, idx>>
    /\ UNCHANGED <<client, calls, received, invoked, answer>>
    /\ UNCHANGED world

\* as HasFirstText, any first block read as if it had a text
HasFirstTextLenient(c) == c.content # <<>>

\* response.content[0].text is evaluated without an error
HasFirstText(c) == c.content # <<>> /\ c.content[1].type = "text"

\* as ClaudeApiReturnNext, the loop started over on the follow-up completion
ClaudeApiReturnNextRestarts(c) ==
    /\ pc = "api_next_wait"
    /\ provider = "anthropic"
    /\ response' = c
    /\ received' = Append(received, c)
    /\ inflight' = "none"
    /\ iter' = c.content
    /\ idx' = 1
    /\ pc' = "claude_loop"
    /\ UNCHANGED <<nread, out, query, messages, available_tools, final_text, amc>>
    /\ UNCHANGED <<client, calls, invoked, returned, answer>>
    /\ UNCHANGED world

\* the follow-up completion arrives: final_text.append(response.content[0].text),
\* then the for loop moves on in the list it started with
ClaudeApiReturnNext(c) ==
    /\ pc = "api_next_wait"
    /\ provider = "anthropic"
    /\ response' = c
    /\ received' = Append(received, c)
    /\ inflight' = "none"
    /\ IF HasFirstText(c)
       THEN /\ final_text' = Append(final_text, c.content[1].text)
            /\ idx' = idx + 1
            /\ pc' = "claude_loop"
       ELSE /\ pc' = "except"
            /\ UNCHANGED <<final_text, idx>>
    /\ UNCHANGED <<nread, out, query, messages, available_tools, iter, amc>>
    /\ UNCHANGED <<client, calls, invoked, returned, answer>>
    /\ UNCHANGED world

\* the for loop is exhausted: return "\n\n".join(final_text)
ClaudeReturn ==
    /\ pc = "claude_loop"
    /\ idx > Len(iter)
    /\ answer' = Join(final_text)
    /\ pc' = "print"
    /\ UNCHANGED <<inflight, nread, out>>
    /\ UNCHANGED <<client, frame, calls, received, invoked, returned>>
    /\ UNCHANGED world

(* ----------------------- _get_final_text_openai ----------------------- *)
\* as OpenaiText, the content never collected
OpenaiTextDropped(ft, message) == ft

\* if message.content: final_text.append(message.content)
OpenaiText(ft, message) ==
    IF message.text # <<>> THEN Append(ft, message.text) ELSE ft

\* messages.append(message)
OpenaiAssistantMessage(message) ==
    [NoMessage EXCEPT !.role = "assistant",
                      !.ctype = IF message.text # <<>> THEN "str" ELSE "none",
                      !.text = message.text,
                      !.tool_calls = message.tool_calls]

\* if not message.tool_calls: break; return "\n\n".join(final_text)
OpenaiReturn ==
    /\ pc = "openai_loop"
    /\ response.tool_calls = <<>>
    /\ final_text' = OpenaiText(final_text, response)
    /\ answer' = Join(OpenaiText(final_text, response))
    /\ pc' = "print"
    /\ UNCHANGED <<inflight, nread, out, query, messages, available_tools,
                   response, iter, idx, amc>>
    /\ UNCHANGED <<client, calls, received, invoked, returned>>
    /\ UNCHANGED world

\* the message carries tool calls: append it and start the for loop over them
OpenaiBatch ==
    /\ pc = "openai_loop"
    /\ response.tool_calls # <<>>
    /\ final_text' = OpenaiText(final_text, response)
    /\ messages' = Append(messages, OpenaiAssistantMessage(response))
    /\ iter' = response.tool_calls
    /\ idx' = 1
    /\ pc' = "openai_tools"
    /\ UNCHANGED <<inflight, nread, out, query, available_tools, response, amc>>
    /\ UNCHANGED <<client, ghost>>
    /\ UNCHANGED world

\* as OpenaiToolCall, the calls of a batch sent without awaiting each result
OpenaiToolCallNoAwait ==
    /\ pc = "openai_tools"
    /\ Parsable(iter[idx].arguments)
    /\ invoked' = Append(invoked,
                         Invocation(iter[idx].name, JsonLoads(iter[idx].arguments),
                                    iter[idx].id))
    /\ inflight' = "call_tool"
    /\ IF idx < Len(iter)
       THEN idx' = idx + 1 /\ pc' = "openai_tools"
       ELSE idx' = idx /\ pc' = "openai_tool_wait"
    /\ UNCHANGED <<nread, out, calls, received, returned, answer>>
    /\ UNCHANGED <<client, query, messages, available_tools, response, iter,
                   final_text, amc>>
    /\ UNCHANGED world

\* tool_args = json.loads(tool_call.function.arguments) raises
OpenaiBadArguments ==
    /\ pc = "openai_tools"
    /\ ~Parsable(iter[idx].arguments)
    /\ Raise
    /\ UNCHANGED <<nread, out>>
    /\ UNCHANGED <<client, frame, ghost>>
    /\ UNCHANGED world

\* tool_result = await self.session.call_tool(tool_name, tool_args)
OpenaiToolCall ==
    /\ pc = "openai_tools"
    /\ Parsable(iter[idx].arguments)
    /\ invoked' = Append(invoked,
                         Invocation(iter[idx].name, JsonLoads(iter[idx].arguments),
                                    iter[idx].id))
    /\ inflight' = "call_tool"
    /\ pc' = "openai_tool_wait"
    /\ UNCHANGED <<nread, out, calls, received, returned, answer>>
    /\ UNCHANGED <<client, frame>>
    /\ UNCHANGED world

\* as OpenaiToolMessage, every result under the id of the first call of the batch
OpenaiToolMessageFirstId(call, payload) ==
    [NoMessage EXCEPT !.role = "tool", !.ctype = "dump",
                      !.tool_call_id = iter[1].id,
                      !.name = call.name,
                      !.items = [i \in 1..Len(payload) |-> ModelDump(payload[i])]]

\* the "tool" message appended for one executed tool call
OpenaiToolMessage(call, payload) ==
    [NoMessage EXCEPT !.role = "tool", !.ctype = "dump",
                      !.tool_call_id = call.id,
                      !.name = call.name,
                      !.items = [i \in 1..Len(payload) |-> ModelDump(payload[i])]]

\* call_tool returned: append the tool message; after the last tool call of the
\* batch _api_call comes next
OpenaiToolReturn(payload) ==
    /\ pc = "openai_tool_wait"
    /\ returned' = Append(returned, payload)
    /\ final_text' = Append(final_text,
                            CallingTool(iter[idx].name, JsonLoads(iter[idx].arguments)))
    /\ messages' = Append(messages, OpenaiToolMessage(iter[idx], payload))
    /\ idx' = idx + 1
    /\ inflight' = "none"
    /\ pc' = IF idx + 1 > Len(iter) THEN "api_next" ELSE "openai_tools"
    /\ UNCHANGED <<nread, out, query, available_tools, response, iter, amc>>
    /\ UNCHANGED <<client, calls, received, invoked, answer>>
    /\ UNCHANGED world

\* the follow-up completion arrives: back to the top of while True
OpenaiApiReturnNext(c) ==
    /\ pc = "api_next_wait"
    /\ provider = "openai"
    /\ response' = c
    /\ received' = Append(received, c)
    /\ inflight' = "none"
    /\ pc' = "openai_loop"
    /\ UNCHANGED <<nread, out, query, messages, available_tools, iter, idx,
                   final_text, amc>>
    /\ UNCHANGED <<client, calls, invoked, returned, answer>>
    /\ UNCHANGED world

(* ---------------------------- specification --------------------------- *)
Next ==
    \/ \E p \in ArgvProviders : Construct(p)
    \/ \E key \in ServerKeys, fail \in ConnectStages : Connect(key, fail)
    \/ ChatLoopInterrupted
    \/ Cleanup
    \/ \E line \in InputLines : ReadQuit(line)
    \/ \E line \in InputLines : ReadQuery(line)
    \/ ReadFails
    \/ PrintAnswer
    \/ PrintError
    \/ ListToolsReturn
    \/ ListToolsRaise
    \/ ApiCall
    \/ ApiRaise
    \/ \E c \in Completions(provider, Len(calls)) : ApiReturnFirst(c)
    \/ ToolRaise
    \/ ClaudeText
    \/ ClaudeToolCall
    \/ ClaudeToolReturn(PayloadAt(Len(invoked)))
    \/ \E c \in Completions(provider, Len(calls)) : ClaudeApiReturnNext(c)
    \/ ClaudeReturn
    \/ OpenaiReturn
    \/ OpenaiBatch
    \/ OpenaiBadArguments
    \/ OpenaiToolCall
    \/ OpenaiToolReturn(PayloadAt(Len(invoked)))
    \/ \E c \in Completions(provider, Len(calls)) : OpenaiApiReturnNext(c)

Spec == Init /\ [][Next]_vars

(* ------------- the client driven through its public methods ----------- *)
\* a caller other than main (the tests) constructs a client and then calls
\* connect_to_server and cleanup in any order; pc tells whether cleanup has
\* been called ("closed") or not ("ops")
InitOps ==
    /\ provider \in Providers
    /\ pc = "ops"
    /\ catalog = Catalog
    /\ NoClient

\* await client.connect_to_server(key), the exception (if any) caught by the caller
OpConnect(key, fail) ==
    /\ pc \in {"ops", "closed"}
    /\ Len(connects) < MaxConnects
    /\ exit_stack' = ConnectStack(exit_stack, key, fail)
    /\ session' = ConnectSession(session, key, fail)
    /\ connects' = Append(connects, <<key, ConnectOutcome(key, fail)>>)
    /\ UNCHANGED <<provider, released, pc, inflight, nread, out, catalog>>
    /\ UNCHANGED <<frame, ghost>>

\* await client.cleanup()
OpCleanup ==
    /\ pc \in {"ops", "closed"}
    /\ released' = Aclose(released, exit_stack)
    /\ exit_stack' = <<>>
    /\ pc' = "closed"
    /\ UNCHANGED <<provider, session, inflight, nread, out>>
    /\ UNCHANGED <<frame, ghost, world>>

NextOps ==
    \/ \E key \in ServerKeys, fail \in ConnectStages : OpConnect(key, fail)
    \/ OpCleanup

SpecOps == InitOps /\ [][NextOps]_vars

(* -------------- process_query among the public operations ------------- *)
\* a ClientSession entered by connect_to_server has not been exited
SessionOpen == \E i \in 1..Len(exit_stack) : exit_stack[i] = "ClientSession"

\* await client.process_query(query), up to its first await: self.session is
\* None before any connect got as far as ClientSession (AttributeError);
\* otherwise list_tools is sent on whatever self.session refers to
OpProcessQuery ==
    /\ pc \in {"ops", "closed"}
    /\ inflight = "none"
    /\ nread < MaxQueries
    /\ nread' = nread + 1
    /\ IF session = "None"
       THEN out' = "error" /\ UNCHANGED inflight
       ELSE inflight' = "list_tools" /\ UNCHANGED out
    /\ UNCHANGED pc
    /\ UNCHANGED <<client, frame, ghost, world>>

\* the rest of process_query, as the caller sees it: an answer (only from a
\* session that is open) or an exception
OpQueryEnds(result) ==
    /\ pc \in {"ops", "closed"}
    /\ inflight = "list_tools"
    /\ result = "answer" => SessionOpen
    /\ inflight' = "none"
    /\ out' = result
    /\ UNCHANGED <<pc, nread>>
    /\ UNCHANGED <<client, frame, ghost, world>>

\* connect_to_server and cleanup are not called while a query is awaited
NextSession ==
    \/ inflight = "none" /\ NextOps
    \/ OpProcessQuery
    \/ \E result \in {"answer", "error"} : OpQueryEnds(result)

SpecSession == InitOps /\ [][NextSession]_vars

(* ------------------- _get_available_tools on its own ------------------ *)
\* the formatter applied to any list of at most MaxTools descriptors, for
\* either provider
InitFormat ==
    /\ provider \in Providers
    /\ pc = "format"
    /\ catalog \in CatalogLists
    /\ NoClient

\* as FormatTools, the descriptor list consumed by the formatting
FormatToolsConsuming ==
    /\ pc \in {"format", "formatted"}
    /\ available_tools' = GetAvailableTools(provider, catalog)
    /\ catalog' = <<>>
    /\ pc' = IF pc = "format" THEN "formatted" ELSE "formatted_again"
    /\ UNCHANGED <<inflight, nread, out, query, messages, response, iter, idx,
                   final_text, amc>>
    /\ UNCHANGED <<client, ghost, connects>>

\* available_tools = await self._get_available_tools(response), called once
\* and then once more on the same response
FormatTools ==
    /\ pc \in {"format", "formatted"}
    /\ available_tools' = GetAvailableTools(provider, catalog)
    /\ pc' = IF pc = "format" THEN "formatted" ELSE "formatted_again"
    /\ UNCHANGED <<inflight, nread, out, query, messages, response, iter, idx,
                   final_text, amc>>
    /\ UNCHANGED <<client, ghost, world>>

SpecFormat == InitFormat /\ [][FormatTools]_vars

(* ------------------ a server that changes its catalog ----------------- *)
\* the server process, while it runs, replaces its catalog once, some query
\* having been answered from the old one
CatalogChanges ==
    /\ out = "answer"
    /\ exit_stack # <<>>
    /\ catalog = Catalog
    /\ catalog' = ChangedCatalog
    /\ UNCHANGED <<pc, inflight, nread, out, connects>>
    /\ UNCHANGED <<client, frame, ghost>>

NextDynamic == Next \/ CatalogChanges

SpecDynamic == Init /\ [][NextDynamic]_vars

(* ------------------- reading the recorded histories ------------------- *)
IsToolUse(b) == b.type = "tool_use"
IsText(b) == b.type = "text"
IdsOf(s) == [i \in 1..Len(s) |-> s[i].id]
TextsOf(s) == [i \in 1..Len(s) |-> s[i].text]

\* the ids of the tool-invocation requests of a completion, in request order
ReqIds(c) == IdsOf(SelectSeq(c.content, IsToolUse)) \o IdsOf(c.tool_calls)
NReq(c) == Len(ReqIds(c))
\* the text fragments of a completion, in block order
FragmentsOf(c) ==
    TextsOf(SelectSeq(c.content, IsText)) \o (IF c.text # <<>> THEN <<c.text>> ELSE <<>>)

\* the requests served by the invocations made after exactly k provider calls
InvokedAfter(k) ==
    LET At(v) == v.after = k
        sel == SelectSeq(invoked, At)
    IN  [i \in 1..Len(sel) |-> sel[i].req]

\* <<position, id>> of every tool-invocation request / tool result of a transcript
BlocksOfType(m, t) ==
    {x \in {m.blocks[n] : n \in 1..Len(m.blocks)} : x.type = t}
TranscriptRequests(msgs) ==
    UNION {{<<i, b.id>> : b \in BlocksOfType(msgs[i], "tool_use")}
              : i \in 1..Len(msgs)}
    \cup
    UNION {{<<i, msgs[i].tool_calls[n].id>> : n \in 1..Len(msgs[i].tool_calls)}
              : i \in 1..Len(msgs)}
TranscriptResults(msgs) ==
    UNION {{<<i, b.tool_use_id>> : b \in BlocksOfType(msgs[i], "tool_result")}
              : i \in 1..Len(msgs)}
    \cup
    {<<i, msgs[i].tool_call_id>> : i \in {n \in 1..Len(msgs) : msgs[n].role = "tool"}}
\* every request of the transcript has a result with its id in the transcript
Resolved(msgs) ==
    \A r \in TranscriptRequests(msgs) :
        \E t \in TranscriptResults(msgs) : t[2] = r[2]

\* where the string f occurs in the string s
Positions(f, s) ==
    {i \in 1..(Len(s) - Len(f) + 1) : SubSeq(s, i, i + Len(f) - 1) = f}
Occurs(f, s) == Positions(f, s) # {}

\* <<k, n>>: fragment n of the k-th completion received
ReceivedFragments ==
    UNION {{<<k, n>> : n \in 1..Len(FragmentsOf(received[k]))}
              : k \in 1..Len(received)}
FragmentAt(kn) == FragmentsOf(received[kn[1]])[kn[2]]

RECURSIVE BlankLineSeparated(_)
\* the text content of a completion: its fragments, a blank line between them
BlankLineSeparated(fs) ==
    IF fs = <<>> THEN <<>>
    ELSE Head(fs) \o (IF Tail(fs) = <<>> THEN <<>> ELSE <<"\n\n">>)
                  \o BlankLineSeparated(Tail(fs))

\* <<type, text>> of the items of a payload, object or dumped
Payload(items) == [i \in 1..Len(items) |-> <<items[i].type, items[i].text>>]
\* <<id, payload>> of the tool results of a transcript, in transcript order
RECURSIVE ResultsIn(_)
ResultsIn(msgs) ==
    IF msgs = <<>> THEN <<>>
    ELSE LET m == Head(msgs)
             IsResult(b) == b.type = "tool_result"
             rs == SelectSeq(m.blocks, IsResult)
         IN  [i \in 1..Len(rs) |-> <<rs[i].tool_use_id, Payload(rs[i].content)>>]
             \o (IF m.role = "tool" THEN << <<m.tool_call_id, Payload(m.items)>> >>
                 ELSE <<>>)
             \o ResultsIn(Tail(msgs))

Connected ==
    /\ session = "ClientSession"
    /\ exit_stack = <<"stdio_client", "ClientSession">>
    /\ released = <<>>

(* ------------------------------- claims ------------------------------- *)
\* C1: whenever a completion carrying N >= 1 tool-invocation requests has been
\* followed by a provider call, exactly its N requests were invoked between the
\* two calls, in request order, and the transcript of the later call holds a
\* result for each of them (either profile).
C1_AllRequestsBeforeNextCall ==
    \A k \in 1..Len(received) :
        (NReq(received[k]) >= 1 /\ Len(calls) > k) =>
            /\ InvokedAfter(k) = ReqIds(received[k])
            /\ \A n \in 1..NReq(received[k]) :
                   \E t \in TranscriptResults(calls[k + 1].messages) :
                       t[2] = ReqIds(received[k])[n]

\* C2: every transcript passed to the provider has, for each tool-invocation
\* request in it, a tool result with the same id.
C2_NoUnresolvedRequest ==
    \A k \in 1..Len(calls) : Resolved(calls[k].messages)
\* C2 witness: a provider call whose transcript holds two requests, both resolved
C2_Witness ==
    \E k \in 1..Len(calls) :
        Cardinality({r[2] : r \in TranscriptRequests(calls[k].messages)}) >= 2

\* C3: process_query returns only when the completion received last carries no
\* tool-invocation request.
C3_ReturnsOnlyWithoutRequests ==
    pc = "print" => NReq(received[Len(received)]) = 0

\* C4: when the first completion carries no tool-invocation request, the query
\* makes one provider call and no tool invocation and cannot fail, and what it
\* returns is that completion's text content.
C4_NoToolsOneRoundTrip ==
    (received # <<>> /\ NReq(received[1]) = 0) =>
        /\ Len(calls) = 1
        /\ invoked = <<>>
        /\ pc \in {"claude_loop", "openai_loop", "print"}
        /\ pc = "print" => answer = BlankLineSeparated(FragmentsOf(received[1]))
\* C4 witness: such a query returned a non-empty answer
C4_Witness ==
    /\ pc = "print"
    /\ NReq(received[1]) = 0
    /\ FragmentsOf(received[1]) # <<>>

\* C5: every text fragment of every completion received during the query occurs
\* in the final answer.
C5_NoFragmentDropped ==
    pc = "print" => \A kn \in ReceivedFragments : Occurs(FragmentAt(kn), answer)

\* C6: the fragments that occur in the final answer occur in emission order:
\* by completion, and by block within a completion.
C6_ChronologicalOrder ==
    pc = "print" =>
        \A a, b \in ReceivedFragments :
            (/\ a[1] < b[1] \/ (a[1] = b[1] /\ a[2] < b[2])
             /\ Occurs(FragmentAt(a), answer)
             /\ Occurs(FragmentAt(b), answer))
            => \A i \in Positions(FragmentAt(a), answer),
                  j \in Positions(FragmentAt(b), answer) : i < j

\* C7: the transcript passed to a provider call has the transcript passed to the
\* previous provider call of the query as an unchanged prefix.
C7_AppendOnly ==
    \A k \in 1..(Len(calls) - 1) : IsPrefix(calls[k].messages, calls[k + 1].messages)

\* C8: the transcript of the first provider call of every query is exactly one
\* user message whose content is the query.
C8_FreshTranscript ==
    calls # <<>> =>
        /\ Len(calls[1].messages) = 1
        /\ calls[1].messages[1].role = "user"
        /\ calls[1].messages[1].ctype = "str"
        /\ calls[1].messages[1].text = <<query>>
        /\ calls[1].messages[1].tool_calls = <<>>
\* C8 witness: the first provider call of a second query, the first having failed
C8_Witness ==
    /\ nread = 2
    /\ out = "error"
    /\ Len(calls) = 1

\* C9: the tool results of the transcript are, in order, the results of the
\* invocations made: each carries the id of the request invoked and the payload
\* that invocation returned.
C9_ResultsMatchInvocations ==
    LET rs == ResultsIn(Materialize(messages, amc))
    IN  /\ Len(rs) = Len(returned)
        /\ \A n \in 1..Len(rs) :
               /\ rs[n][1] = invoked[n].req
               /\ rs[n][2] = Payload(returned[n])
\* C9 witness: two results in the transcript
C9_Witness == Len(returned) >= 2 /\ Len(ResultsIn(Materialize(messages, amc))) >= 2

\* C10: an exception raised while a query is processed leaves the client
\* connected and untouched, is followed by the prompt, and the query read next
\* starts from a one-message transcript.
C10_ErrorAbortsOnlyTheQuery ==
    [][/\ (pc = "except" \/ pc' = "except") => (Connected /\ UNCHANGED client)
       /\ pc = "except" => (pc' = "prompt" /\ messages' = <<>>)
       /\ (pc = "prompt" /\ out = "error" /\ pc' = "list_tools_wait")
              => (Len(messages') = 1 /\ messages'[1].text = <<query'>>)]_vars
\* C10 witness: the query after a failed one returned an answer
C10_Witness ==
    /\ pc = "print"
    /\ out = "error"
    /\ nread = 2
    /\ Connected

\* the requests of the completion being served that precede position idx have
\* been invoked and have returned
PrecedingExecuted ==
    \A j \in 1..(idx - 1) :
        (provider = "anthropic" => iter[j].type = "tool_use")
            => \E n \in 1..Len(returned) : invoked[n].req = iter[j].id
\* a tool invocation in flight ends without a payload, the run going on
ToolFails ==
    /\ inflight = "call_tool"
    /\ inflight' = "none"
    /\ returned' = returned
    /\ pc' # "cleanup"

\* C11: a failed tool invocation is fatal to the query: the requests before it
\* in the completion were executed, nothing is appended to the transcript, and
\* no invocation and no provider call follows before the query is abandoned.
C11_ToolFailureIsFatal ==
    [][/\ ToolFails => /\ pc' = "except"
                       /\ PrecedingExecuted
                       /\ UNCHANGED <<messages, amc, calls, invoked>>
       /\ pc = "except" => /\ pc' = "prompt"
                           /\ out' = "error"
                           /\ messages' = <<>> /\ calls' = <<>> /\ invoked' = <<>>]_vars
\* C11 witness: the second invocation of a query failed, the first had returned
C11_Witness ==
    /\ pc = "except"
    /\ Len(invoked) = 2
    /\ Len(returned) = 1

\* connect_to_server was called, and only ever with keys the configuration lacks
OnlyUnknownKeys ==
    /\ connects # <<>>
    /\ \A i \in 1..Len(connects) : connects[i][1] \notin ConfigKeys

\* C12: connect_to_server with an unknown server key raises the key error
\* with nothing launched: the session stays unset, the exit stack stays empty,
\* and the cleanup that follows releases nothing.
C12_UnknownKeyLeavesNothing ==
    OnlyUnknownKeys =>
        /\ \A i \in 1..Len(connects) : connects[i][2] = "KeyError"
        /\ session = "None"
        /\ exit_stack = <<>>
        /\ released = <<>>
        /\ pc \in {"cleanup", "done"}
\* C12 witness: main ended after connect_to_server("ghost") and cleanup
C12_Witness ==
    /\ pc = "done"
    /\ connects = << <<"ghost", "KeyError">> >>

\* the finally clause of main is taken once it is reached
LiveSpec == Spec /\ WF_vars(Cleanup)

\* C13: main ends only through cleanup, whichever way connect or the chat loop
\* was left; cleanup releases every context connect_to_server entered, nothing
\* is released anywhere else, and no step follows it; once the finally clause
\* is reached the release does happen.
C13_ReleasedOnEveryExitPath ==
    /\ [][/\ pc' = "done" => /\ pc = "cleanup"
                             /\ released = <<>>
                             /\ exit_stack' = <<>>
                             /\ Len(released') = Len(exit_stack)
                             /\ \A i \in 1..Len(exit_stack) :
                                    \E j \in 1..Len(released') :
                                        released'[j] = exit_stack[i]
          /\ pc' = "crashed" => (pc = "start" /\ exit_stack = <<>>)
          /\ pc # "cleanup" => (released' = released /\ Len(exit_stack') >= Len(exit_stack))
          /\ pc \notin {"done", "crashed"}]_vars
    /\ (pc = "cleanup") ~> (pc = "done" /\ exit_stack = <<>>)
\* C13 witness: connect failed at initialize, after the subprocess and the
\* session were entered, and both were released
C13_Witness ==
    /\ pc = "done"
    /\ connects = << <<"dummy", "initialize">> >>
    /\ released = <<"ClientSession", "stdio_client">>

\* no connect_to_server call got past the key lookup
NeverConnected == \A i \in 1..Len(connects) : connects[i][2] = "KeyError"

\* C14: on a client that never connected (no connect call, or only calls with
\* unknown keys) cleanup returns, releases nothing and changes nothing of the
\* client.
C14_CleanupWithoutConnectIsNoOp ==
    [][(NeverConnected /\ connects' = connects)
          => /\ pc' = "closed"
             /\ released' = <<>>
             /\ UNCHANGED <<provider, session, exit_stack, released>>]_vars
\* C14 witness: cleanup was called after connect_to_server("ghost") had failed
C14_Witness ==
    /\ pc = "closed"
    /\ connects = << <<"ghost", "KeyError">> >>
    /\ released = <<>>

\* C15: construction succeeds exactly for the providers 'anthropic' and
\* 'openai', which it records; with any other value it raises before main
\* connects, so every later step runs on a client of a known provider and
\* nothing is ever connected, read or requested for an unknown one.
C15_OnlyKnownProviders ==
    /\ pc = "start" => provider = "None"
    /\ pc = "crashed" <=> provider \notin {"anthropic", "openai", "None"}
    /\ pc \notin {"start", "crashed"} => provider \in {"anthropic", "openai"}
    /\ pc = "crashed" => /\ connects = <<>> /\ nread = 0 /\ calls = <<>>
                         /\ session = "None" /\ exit_stack = <<>>
\* C15 witness: MCPClient("unsupported") raised
C15_Witness ==
    /\ pc = "crashed"
    /\ provider = "unsupported"

\* the stripped input lines that are "quit" up to case, and the others
QuitWords == {"quit", "Quit"}
QueryWords == {"", "What is 2+2?"}
\* a query is being processed
Processing == pc \notin {"start", "crashed", "connect", "prompt", "cleanup", "done"}

\* C16: a line that is "quit" up to case and surrounding blanks ends the loop
\* with no list-tools, provider or tool call made for it and is never
\* processed; every other line, the empty one too, can be read at the prompt
\* and is then the one query of one process_query call.
C16_QuitEndsLoop ==
    /\ Processing => query \in QueryWords
    /\ query \in QuitWords => /\ pc \in {"cleanup", "done"}
                              /\ inflight = "none"
                              /\ calls = <<>> /\ invoked = <<>> /\ messages = <<>>
    /\ pc = "prompt" =>
          /\ \A q \in QuitWords :
                 /\ ENABLED (Next /\ query' = q /\ pc' = "cleanup" /\ nread' = nread)
                 /\ ~ENABLED (Next /\ query' = q /\ pc' # "cleanup")
          /\ \A q \in QueryWords :
                 /\ nread < MaxQueries =>
                        ENABLED (/\ Next
                                 /\ query' = q
                                 /\ pc' = "list_tools_wait"
                                 /\ inflight' = "list_tools"
                                 /\ nread' = nread + 1)
                 /\ ~ENABLED (Next /\ query' = q /\ nread' # nread + 1
                                   /\ pc' \notin {"prompt", "cleanup"})
    /\ pc = "list_tools_wait" => (inflight = "list_tools" /\ calls = <<>>)
\* C16 witness: the empty line is being processed as the second query
C16_Witness ==
    /\ pc = "list_tools_wait"
    /\ query = ""
    /\ nread = 2

\* C17: the formatted catalog has one tool spec per descriptor, in the
\* descriptors' order, carrying the descriptor's name, description and input
\* schema unmodified in the fields of the provider's profile and nothing else.
C17_FormattingExact ==
    pc \in {"formatted", "formatted_again"} =>
        /\ Len(available_tools) = Len(catalog)
        /\ \A i \in 1..Len(catalog) :
               LET t == available_tools[i]
                   d == catalog[i]
               IN  IF provider = "anthropic"
                   THEN /\ t.name = d.name
                        /\ t.description = d.description
                        /\ t.input_schema = d.inputSchema
                        /\ t.type = "" /\ t.function = NoFunction
                   ELSE /\ t.type = "function"
                        /\ t.function.name = d.name
                        /\ t.function.description = d.description
                        /\ t.function.parameters = d.inputSchema
                        /\ t.name = "" /\ t.description = "" /\ t.input_schema = ""
\* C17 witness: two different descriptors formatted for openai
C17_Witness ==
    /\ pc = "formatted"
    /\ provider = "openai"
    /\ Len(catalog) = 2
    /\ catalog[1].name # catalog[2].name
    /\ catalog[1].inputSchema # catalog[2].inputSchema

ToolView(ts) ==
    [i \in 1..Len(ts) |->
        IF ts[i].type = "function"
        THEN <<ts[i].function.name, ts[i].function.parameters>>
        ELSE <<ts[i].name, ts[i].input_schema>>]
\* the names and schemas the transport reports
CatalogView == [i \in 1..Len(catalog) |-> <<catalog[i].name, catalog[i].inputSchema>>]
\* the tool name and the arguments of the request with correlation id r
RequestedName(r) == NameAt(r \div 10, r % 10)
RequestedArgs(r) == JsonLoads(DocAt(r \div 10, r % 10))

\* C19: whatever the profile, the tools presented to the provider are those of
\* the transport's catalog, names and schemas in its order, and every
\* invocation sent to the transport carries the tool name and the arguments of
\* the request it serves; neither depends on the provider.
C19_ProfileIsolation ==
    /\ \A k \in 1..Len(calls) : ToolView(calls[k].tools) = CatalogView
    /\ available_tools # <<>> => ToolView(available_tools) = CatalogView
    /\ \A n \in 1..Len(invoked) :
           /\ invoked[n].name = RequestedName(invoked[n].req)
           /\ invoked[n].args = RequestedArgs(invoked[n].req)
\* C19 witness: under the openai profile two requests were sent to the
\* transport after a provider call that presented the catalog
C19_Witness ==
    /\ provider = "openai"
    /\ Len(invoked) = 2
    /\ invoked[1].name # invoked[2].name
    /\ Len(calls) >= 1
    /\ Len(calls[1].tools) = 2

\* the tool specs ts are the formatting of the catalog the server has now
FormattedFromCatalog(ts) ==
    /\ Len(ts) = Len(catalog)
    /\ \A i \in 1..Len(ts) :
           IF ts[i].type = "function"
           THEN /\ ts[i].function.name = catalog[i].name
                /\ ts[i].function.description = catalog[i].description
                /\ ts[i].function.parameters = catalog[i].inputSchema
           ELSE /\ ts[i].name = catalog[i].name
                /\ ts[i].description = catalog[i].description
                /\ ts[i].input_schema = catalog[i].inputSchema

\* C20: list_tools is called once per query, when the query starts and before
\* any provider call; what it returns is formatted from the catalog the server
\* has at that moment, also after the server changed it; the formatted list is
\* kept for the rest of the query and is what every provider call passes.
C20_CatalogFetchedPerQuery ==
    [][/\ (inflight' = "list_tools" /\ inflight # "list_tools")
              => (pc = "prompt" /\ calls' = <<>> /\ nread' = nread + 1)
       /\ (inflight = "list_tools" /\ pc' = "api_first")
              => (catalog' = catalog /\ FormattedFromCatalog(available_tools'))
       /\ available_tools' # available_tools
              => (inflight = "list_tools" \/ available_tools' = <<>>)
       /\ calls' # calls
              => \/ calls' = <<>>
                 \/ /\ calls' = Append(calls, calls'[Len(calls')])
                    /\ calls'[Len(calls')].tools = available_tools
                    /\ available_tools # <<>>
                    /\ inflight # "list_tools"]_vars
\* C20 witness: the second query's provider call passes the changed catalog
\* (the first query was answered from the old one)
C20_Witness ==
    /\ nread = 2
    /\ catalog = ChangedCatalog
    /\ Len(calls) >= 1
    /\ Len(calls[1].tools) = Len(ChangedCatalog)
    /\ FormattedFromCatalog(calls[1].tools)

\* the external calls of the query that were started and have neither returned
\* nor raised
Outstanding ==
    IF pc = "except" THEN 0
    ELSE (IF pc = "list_tools_wait" THEN 1 ELSE 0)
         + (Len(calls) - Len(received))
         + (Len(invoked) - Len(returned))
\* a step that starts an external call of the query
StartsCall ==
    \/ pc # "list_tools_wait" /\ pc' = "list_tools_wait"
    \/ Len(calls') > Len(calls)
    \/ Len(invoked') > Len(invoked)

\* C21: within a query at most one of list-tools, provider call and tool
\* invocation is outstanding; a call is started only when none is outstanding,
\* and the transcript changes only before a call is started or as the step
\* that takes its result.
C21_OneCallInFlight ==
    [][/\ Outstanding' \in {0, 1}
       /\ StartsCall => (Outstanding = 0 /\ Outstanding' = 1)
       /\ Outstanding' = 1 <=> inflight' # "none"
       /\ messages' # messages => (Outstanding = 0 \/ Outstanding' = 0)]_vars
\* C21 witness: the second tool invocation of an openai batch is outstanding,
\* the first having returned
C21_Witness ==
    /\ provider = "openai"
    /\ pc = "openai_tool_wait"
    /\ idx = 2
    /\ Len(invoked) = 2
    /\ Len(returned) = 1

\* every completion received in the query carries a tool-invocation request
AlwaysRequests ==
    /\ received # <<>>
    /\ \A k \in 1..Len(received) : NReq(received[k]) >= 1

\* C22: while the provider answers every call with a completion that carries
\* a tool-invocation request, process_query does not return (either profile):
\* it returns only once some completion came without one.
C22_LoopsWhileRequested ==
    AlwaysRequests => pc # "print"

\* no request id occurs at two places of the transcript
EachRequestOnce(msgs) ==
    \A r \in TranscriptRequests(msgs) :
        \A s \in TranscriptRequests(msgs) : r[2] = s[2] => r = s
\* anthropic framing: a tool_use block sits in an assistant message and the
\* next message is a user message holding the tool_result with its id
FramedAnthropic(msgs) ==
    \A i \in 1..Len(msgs) :
        \A b \in BlocksOfType(msgs[i], "tool_use") :
            /\ msgs[i].role = "assistant"
            /\ i < Len(msgs)
            /\ msgs[i + 1].role = "user"
            /\ \E t \in BlocksOfType(msgs[i + 1], "tool_result") : t.tool_use_id = b.id
\* openai framing: the assistant message of a batch is followed by one "tool"
\* message per tool call, in the order of the calls, carrying the call's id
FramedOpenai(msgs) ==
    \A i \in 1..Len(msgs) :
        \A j \in 1..Len(msgs[i].tool_calls) :
            /\ msgs[i].role = "assistant"
            /\ i + j <= Len(msgs)
            /\ msgs[i + j].role = "tool"
            /\ msgs[i + j].tool_call_id = msgs[i].tool_calls[j].id

\* C23: in every transcript passed to the provider each tool-invocation
\* request occurs exactly once and is framed, with its result, as the profile
\* prescribes.
C23_FramedOncePerRequest ==
    \A k \in 1..Len(calls) :
        /\ EachRequestOnce(calls[k].messages)
        /\ FramedAnthropic(calls[k].messages)
        /\ FramedOpenai(calls[k].messages)

\* C24: a list-tools request is in flight only on a session that
\* connect_to_server entered and cleanup has not closed: before a connect and
\* after cleanup process_query does not reach the transport.
C24_NoRequestUnlessConnected ==
    inflight = "list_tools" => (session = "ClientSession" /\ SessionOpen)

\* how many entries of the sequence s are the resource r
CountOf(r, s) == Cardinality({i \in 1..Len(s) : s[i] = r})
\* the connect_to_server calls that launched the subprocess transport
Launched ==
    Cardinality({i \in 1..Len(connects) :
                    connects[i][2] \notin {"KeyError", "stdio_client"}})

\* C25: the client holds at most one subprocess transport at any time, and
\* every transport launched is either still held or was torn down once.
C25_OneTransportTornDownOnce ==
    /\ CountOf("stdio_client", exit_stack) <= 1
    /\ CountOf("stdio_client", exit_stack) + CountOf("stdio_client", released) = Launched

\* the program and the services it awaits keep taking steps
FairSpec == Spec /\ WF_vars(Next)

\* the blocks of the assistant messages of a transcript
AssistantBlocks(msgs) ==
    UNION {{msgs[i].blocks[n] : n \in 1..Len(msgs[i].blocks)}
              : i \in {m \in 1..Len(msgs) : msgs[m].role = "assistant"}}
\* the content blocks of a completion
BlocksIn(c) == {c.content[n] : n \in 1..Len(c.content)}

FollowUpArrives ==
    /\ provider = "anthropic"
    /\ received # <<>>
    /\ Len(received') = Len(received) + 1
\* the last message of the transcript holds the result of the last invocation
LastResultAppended ==
    /\ messages # <<>>
    /\ invoked # <<>>
    /\ Len(returned) = Len(invoked)
    /\ \E b \in BlocksOfType(messages[Len(messages)], "tool_result") :
           b.tool_use_id = invoked[Len(invoked)].req

InChatLoop == pc = "prompt" \/ Processing
\* reading the input fails with an Exception: the error is printed and the
\* loop is at the prompt again, nothing else having changed
FailedRead ==
    /\ pc = "prompt" /\ pc' = "prompt"
    /\ out' = "error"
    /\ UNCHANGED <<inflight, nread, client, frame, ghost, world>>

\* C28 as stated: chat_loop is left only by reading a quit line.
C28_LoopEndsOnlyByQuit ==
    [][(InChatLoop /\ ~InChatLoop') => (pc = "prompt" /\ query' \in QuitWords)]_vars

\* C28, amended: chat_loop is left only by reading a quit line or by an
\* interrupt raised where it waits (for input or for an awaited call); an
\* Exception raised in an iteration is followed by the prompt; a failed read
\* leaves the loop at the prompt, where reading can fail again, so that a run
\* whose reads always fail stays in the loop and never reaches cleanup.
C28_LoopEndsByQuitOrInterrupt ==
    [][/\ (InChatLoop /\ ~InChatLoop') =>
              /\ pc' = "cleanup"
              /\ \/ pc = "prompt" /\ query' \in QuitWords
                 \/ /\ pc = "prompt" \/ inflight # "none"
                    /\ query' = ""
                    /\ out' = out
       /\ pc = "except" => pc' = "prompt"
       /\ (pc = "prompt" /\ pc' = "prompt") => FailedRead
       /\ pc = "prompt" => ENABLED FailedRead]_vars
\* C28 witness: a read failed before any query and the loop is prompting again
C28_Witness ==
    /\ pc = "prompt"
    /\ out = "error"
    /\ nread = 0
    /\ Connected
====
